---- MODULE Spec2Model ----
(***************************************************************************)
(* Model of backend/app.py: the Flask handlers /get-weather,               *)
(* /get-forecast, /get-hourly, /get-minute-forecast and /get-alerts, and   *)
(* the helper get_coordinates_from_city that resolves a city string to     *)
(* coordinates through the geocoding service.                              *)
(*                                                                         *)
(* One request is handled at a time (each handler is synchronous).  A      *)
(* handler is split where it blocks on an upstream HTTP call: the step     *)
(* that receives the request and issues the first upstream call, the step  *)
(* that consumes the geocoding response, and the step that consumes the    *)
(* weather response.                                                       *)
(***************************************************************************)
EXTENDS Integers, Sequences, FiniteSets, TLC

\* Number of requests served in one behaviour.
MaxRequests == 2
\* Longest list of matches the geocoding service holds for one query.
MaxCandidates == 2

-----------------------------------------------------------------------------
(* Python values.  A text is a sequence of one-character strings.          *)

PyNone == [t |-> "none", s |-> <<>>]
PyStr(chars) == [t |-> "str", s |-> chars]
PyNum(n) == [t |-> "num", s |-> <<n>>]
\* A key that a JSON object does not carry.
Absent == [t |-> "absent", s |-> <<>>]

\* Python truthiness, as used by `not lat`, `if city`, `if city_info`.
Truthy(v) ==
    CASE v.t = "none" -> FALSE
      [] v.t = "str" -> Len(v.s) > 0
      [] v.t = "num" -> v.s # <<"0">>
      [] OTHER -> TRUE

\* dict.get(key, default)
Get(d, key, default) == IF d[key] = Absent THEN default ELSE d[key]

-----------------------------------------------------------------------------
(* The inputs.                                                             *)

t_Sp == <<"S", "p">>
t_SpIlUS == <<"S", "p", ",", " ", "I", "l", ",", " ", "U", "S">>
t_Blank == <<" ">>

\* Values of the `city` query parameter (request.args.get('city')).
CityArgs == {PyNone, PyStr(<<>>), PyStr(t_Blank), PyStr(t_Sp), PyStr(t_SpIlUS)}
\* Values of the `lat` and `lon` query parameters.
CoordArgs == {PyNone, PyStr(<<"0">>)}

\* Entries of the geocoding service's data.
Springfield_IL ==
    [name |-> PyStr(<<"S", "p">>), state |-> PyStr(<<"I", "l">>),
     country |-> PyStr(<<"U", "S">>), lat |-> PyNum("39"), lon |-> PyNum("-89")]
Springfield_MO ==
    [name |-> PyStr(<<"S", "p">>), state |-> PyStr(<<"M", "o">>),
     country |-> PyStr(<<"U", "S">>), lat |-> PyNum("37"), lon |-> PyNum("-93")]
London_GB ==
    [name |-> PyStr(<<"L", "o">>), state |-> Absent,
     country |-> PyStr(<<"G", "B">>), lat |-> PyNum("51"), lon |-> PyNum("0")]
Places == {Springfield_IL, Springfield_MO, London_GB}

\* The ordered match lists the geocoding service can hold for a query: no
\* place twice.
Listings ==
    {l \in UNION {[1..n -> Places] : n \in 0..MaxCandidates} :
        \A i, j \in DOMAIN l : l[i] = l[j] => i = j}

\* Ways the geocoding call fails: requests.get raises, raise_for_status
\* raises, response.json() raises.
GeoFaults == {"network_error", "http_error", "malformed_body"}

\* Outcomes of the weather call and of the processing of its body.
WeatherOutcomes ==
    {"ok", "key_error", "request_401", "request_subscription",
     "request_other", "exception"}

OneCallEndpoints == {"get-forecast", "get-hourly", "get-minute-forecast", "get-alerts"}

-----------------------------------------------------------------------------
VARIABLES
    pc,            \* "idle", "geocoding", "onecall", "weather", "done"
    endpoint,      \* the route of the request being handled
    city, lat, lon, city_info,   \* the handler's locals
    geoCalls,      \* geocoding requests issued for this request, in order
    geoReplies,    \* geocoding responses received for this request, in order
    resolver,      \* what get_coordinates_from_city returned for this request
    weatherCalls,  \* weather requests issued for this request, in order
    weatherReplies,\* outcomes of the weather requests of this request, in order
    status,        \* HTTP status of the response, 0 while there is none
    body,          \* city and country of a 200 response
    geodata,       \* the geocoding service's data, for the queries asked so far
    resolved,      \* per query, the results of its answered resolutions
    nreq           \* requests received so far

vars == <<pc, endpoint, city, lat, lon, city_info, geoCalls, geoReplies,
          resolver, weatherCalls, weatherReplies, status, body, geodata,
          resolved, nreq>>

NoBody == [city |-> PyNone, country |-> PyNone]
NoResult == [returned |-> FALSE, raised |-> "none", lat |-> PyNone,
             lon |-> PyNone, city_info |-> PyNone]
\* The helper's `return None, None, None`.
NoneTriple == [returned |-> TRUE, raised |-> "none", lat |-> PyNone,
               lon |-> PyNone, city_info |-> PyNone]
EmptyMap == [x \in {} |-> {}]

Init ==
    /\ pc = "idle"
    /\ endpoint = "none"
    /\ city = PyNone /\ lat = PyNone /\ lon = PyNone /\ city_info = PyNone
    /\ geoCalls = <<>> /\ geoReplies = <<>> /\ weatherCalls = <<>>
    /\ weatherReplies = <<>>
    /\ resolver = NoResult
    /\ status = 0
    /\ body = NoBody
    /\ geodata = EmptyMap
    /\ resolved = EmptyMap
    /\ nreq = 0

-----------------------------------------------------------------------------
(* Operations on texts, used to state the properties of the resolver.      *)

UpperCase == <<"A", "B", "C", "D", "E", "F", "G", "H", "I", "J", "K", "L", "M",
               "N", "O", "P", "Q", "R", "S", "T", "U", "V", "W", "X", "Y", "Z">>
LowerCase == <<"a", "b", "c", "d", "e", "f", "g", "h", "i", "j", "k", "l", "m",
               "n", "o", "p", "q", "r", "s", "t", "u", "v", "w", "x", "y", "z">>

LowerChar(c) ==
    IF \E i \in DOMAIN UpperCase : UpperCase[i] = c
    THEN LowerCase[CHOOSE i \in DOMAIN UpperCase : UpperCase[i] = c]
    ELSE c

\* str.lower()
Lower(text) == [i \in DOMAIN text |-> LowerChar(text[i])]

\* str.strip()
RECURSIVE Trim(_)
Trim(text) ==
    IF text = <<>> THEN <<>>
    ELSE IF Head(text) = " " THEN Trim(Tail(text))
    ELSE IF text[Len(text)] = " " THEN Trim(SubSeq(text, 1, Len(text) - 1))
    ELSE text

HasComma(text) == \E i \in DOMAIN text : text[i] = ","

\* Index of the first comma; Len(text) + 1 when there is none.
FirstComma(text) ==
    IF HasComma(text)
    THEN CHOOSE i \in DOMAIN text : text[i] = "," /\ \A j \in 1..(i - 1) : text[j] # ","
    ELSE Len(text) + 1

\* The comma-separated segments of a text, each trimmed.
RECURSIVE Segments(_)
Segments(text) ==
    LET k == FirstComma(text) IN
    IF k > Len(text) THEN <<Trim(text)>>
    ELSE <<Trim(SubSeq(text, 1, k - 1))>> \o Segments(SubSeq(text, k + 1, Len(text)))

\* The text before the first comma, trimmed.
Fallback(text) == Segments(text)[1]

\* `part in text`
Contains(text, part) ==
    \E i \in 0..(Len(text) - Len(part)) : SubSeq(text, i + 1, i + Len(part)) = part

-----------------------------------------------------------------------------
(* get_coordinates_from_city                                               *)

\* Variant of GeocodingParams: asks for up to ten candidates.
GeocodingParams_ten(city_name) == [q |-> city_name, limit |-> 10]

\* The query parameters of the geocoding request.
GeocodingParams(city_name) == [q |-> city_name, limit |-> 1]

\* The geocoding service: the first `limit` of its matches for the query.
GeocodingData(matches, params) ==
    SubSeq(matches, 1, IF params.limit < Len(matches) THEN params.limit ELSE Len(matches))

\* Variant of CityInfo: the country is read from the 'state' key.
CityInfo_mixed(location) ==
    [t |-> "dict", s |-> <<>>,
     name |-> Get(location, "name", PyStr(<<>>)),
     state |-> Get(location, "state", PyStr(<<>>)),
     country |-> Get(location, "state", PyStr(<<>>))]

\* The city_info dict built from the chosen location.
CityInfo(location) ==
    [t |-> "dict", s |-> <<>>,
     name |-> Get(location, "name", PyStr(<<>>)),
     state |-> Get(location, "state", PyStr(<<>>)),
     country |-> Get(location, "country", PyStr(<<>>))]

\* Variant of get_coordinates_from_city: a first candidate whose lowercase
\* name differs from the query's first segment is not returned.
get_coordinates_from_city_named(city_name, response) ==
    IF response.fault # "none"
    THEN NoneTriple
    ELSE LET data == response.data IN
         IF Len(data) > 0 /\ Lower(Get(data[1], "name", PyStr(<<>>)).s)
                                = Lower(Fallback(city_name.s))
         THEN LET location == data[1] IN
              [returned |-> TRUE, raised |-> "none",
               lat |-> Get(location, "lat", PyNone),
               lon |-> Get(location, "lon", PyNone),
               city_info |-> CityInfo(location)]
         ELSE NoneTriple

\* Variant of get_coordinates_from_city: location['state'] instead of
\* location.get('state', ''), so a location without a state raises KeyError,
\* which the helper's `except Exception` turns into (None, None, None).
get_coordinates_from_city_state_key(city_name, response) ==
    IF response.fault # "none"
    THEN NoneTriple
    ELSE LET data == response.data IN
         IF Len(data) > 0 /\ data[1].state # Absent
         THEN LET location == data[1] IN
              [returned |-> TRUE, raised |-> "none",
               lat |-> Get(location, "lat", PyNone),
               lon |-> Get(location, "lon", PyNone),
               city_info |-> CityInfo(location)]
         ELSE NoneTriple

\* Variant of get_coordinates_from_city: data[0] of an empty list raises
\* IndexError, and the exception leaves the helper.
get_coordinates_from_city_raises(city_name, response) ==
    IF response.fault # "none"
    THEN NoneTriple
    ELSE LET data == response.data IN
         IF Len(data) > 0
         THEN LET location == data[1] IN
              [returned |-> TRUE, raised |-> "none",
               lat |-> Get(location, "lat", PyNone),
               lon |-> Get(location, "lon", PyNone),
               city_info |-> CityInfo(location)]
         ELSE [returned |-> FALSE, raised |-> "Exception", lat |-> PyNone,
               lon |-> PyNone, city_info |-> PyNone]

\* Variant of get_coordinates_from_city: state kept between calls (every
\* second request is answered (None, None, None) without reading the data).
get_coordinates_from_city_throttled(city_name, response) ==
    IF response.fault # "none" \/ nreq % 2 = 0
    THEN NoneTriple
    ELSE LET data == response.data IN
         IF Len(data) > 0
         THEN LET location == data[1] IN
              [returned |-> TRUE, raised |-> "none",
               lat |-> Get(location, "lat", PyNone),
               lon |-> Get(location, "lon", PyNone),
               city_info |-> CityInfo(location)]
         ELSE NoneTriple

\* Variant of get_coordinates_from_city: latitude and longitude exchanged.
get_coordinates_from_city_swapped(city_name, response) ==
    IF response.fault # "none"
    THEN NoneTriple
    ELSE LET data == response.data IN
         IF Len(data) > 0
         THEN LET location == data[1] IN
              [returned |-> TRUE, raised |-> "none",
               lat |-> Get(location, "lon", PyNone),
               lon |-> Get(location, "lat", PyNone),
               city_info |-> CityInfo(location)]
         ELSE NoneTriple

\* What the helper, called with city_name, returns once the geocoding
\* response is in: response.fault is "none" for a 2xx response whose body
\* parsed to response.data.
get_coordinates_from_city(city_name, response) ==
    IF response.fault # "none"
    THEN NoneTriple
    ELSE LET data == response.data IN
         IF Len(data) > 0
         THEN LET location == data[1] IN
              [returned |-> TRUE, raised |-> "none",
               lat |-> Get(location, "lat", PyNone),
               lon |-> Get(location, "lon", PyNone),
               city_info |-> CityInfo(location)]
         ELSE NoneTriple

-----------------------------------------------------------------------------
(* The One Call handlers: get_forecast, get_hourly, get_minute_forecast,   *)
(* get_alerts.                                                             *)

\* Variant of MissingInput: `and` between the two coordinate tests.
MissingInput_both(c, la, lo) == ~Truthy(c) /\ (~Truthy(la) /\ ~Truthy(lo))

\* `not city and (not lat or not lon)`
MissingInput(c, la, lo) == ~Truthy(c) /\ (~Truthy(la) \/ ~Truthy(lo))

\* Variant of NeedsGeocoding: the city is geocoded whenever it is given.
NeedsGeocoding_city(c, la, lo) == Truthy(c)

\* `city and (not lat or not lon)`
NeedsGeocoding(c, la, lo) == Truthy(c) /\ (~Truthy(la) \/ ~Truthy(lo))

\* `not lat or not lon`, after the helper returned
NotFound(la, lo) == ~Truthy(la) \/ ~Truthy(lo)

Exclude(ep) ==
    CASE ep = "get-forecast" -> "current,minutely,hourly,alerts"
      [] ep = "get-hourly" -> "current,minutely,daily,alerts"
      [] ep = "get-minute-forecast" -> "current,hourly,daily,alerts"
      [] ep = "get-alerts" -> "current,minutely,hourly,daily"

\* The query parameters of the One Call request.
OneCallParams(ep, la, lo) ==
    [api |-> "onecall", lat |-> la, lon |-> lo, q |-> PyNone, exclude |-> Exclude(ep)]

\* Variant of GeocodingCalls: a second lookup, for the text before the first
\* comma, when that differs from the query.
GeocodingCalls_retry(city_name) ==
    IF Fallback(city_name.s) # city_name.s
    THEN <<GeocodingParams(city_name), GeocodingParams(PyStr(Fallback(city_name.s)))>>
    ELSE <<GeocodingParams(city_name)>>

\* Variant of GeocodingCalls: the lookup is sent twice.
GeocodingCalls_twice(city_name) == <<GeocodingParams(city_name), GeocodingParams(city_name)>>

\* The geocoding requests the helper sends when it is called.
GeocodingCalls(city_name) == <<GeocodingParams(city_name)>>

\* The handler from the request to its first upstream call (or its 400).
OneCallHandler(ep, c, la, lo) ==
    /\ pc \in {"idle", "done"}
    /\ nreq < MaxRequests
    /\ nreq' = nreq + 1
    /\ endpoint' = ep
    /\ city' = c /\ lat' = la /\ lon' = lo /\ city_info' = PyNone
    /\ geoReplies' = <<>>
    /\ weatherReplies' = <<>>
    /\ resolver' = NoResult
    /\ body' = NoBody
    /\ IF MissingInput(c, la, lo)
       THEN /\ status' = 400
            /\ pc' = "done"
            /\ geoCalls' = <<>>
            /\ weatherCalls' = <<>>
       ELSE IF NeedsGeocoding(c, la, lo)
       THEN /\ status' = 0
            /\ pc' = "geocoding"
            /\ geoCalls' = GeocodingCalls(c)
            /\ weatherCalls' = <<>>
       ELSE /\ status' = 0
            /\ pc' = "onecall"
            /\ geoCalls' = <<>>
            /\ weatherCalls' = <<OneCallParams(ep, la, lo)>>
    /\ UNCHANGED <<geodata, resolved>>

get_forecast == \E c \in CityArgs, la, lo \in CoordArgs : OneCallHandler("get-forecast", c, la, lo)
get_hourly == \E c \in CityArgs, la, lo \in CoordArgs : OneCallHandler("get-hourly", c, la, lo)
get_minute_forecast ==
    \E c \in CityArgs, la, lo \in CoordArgs : OneCallHandler("get-minute-forecast", c, la, lo)
get_alerts == \E c \in CityArgs, la, lo \in CoordArgs : OneCallHandler("get-alerts", c, la, lo)

\* Step A after the helper returned `ret`: the 404, the propagation of an
\* exception to the handler's except clauses, or the One Call request.
AfterGeocoding(ret) ==
    /\ resolver' = ret
    /\ IF ret.raised # "none"
       THEN /\ status' = 500
            /\ pc' = "done"
            /\ UNCHANGED <<lat, lon, city_info, weatherCalls>>
       ELSE /\ lat' = ret.lat /\ lon' = ret.lon /\ city_info' = ret.city_info
            /\ IF NotFound(ret.lat, ret.lon)
               THEN /\ status' = 404
                    /\ pc' = "done"
                    /\ UNCHANGED weatherCalls
               ELSE /\ status' = 0
                    /\ pc' = "onecall"
                    /\ weatherCalls' = <<OneCallParams(endpoint, ret.lat, ret.lon)>>

\* The entry of `resolved` for query q after an answered resolution gave ret.
Recorded(q, ret) ==
    IF q \in DOMAIN resolved
    THEN [outs |-> resolved[q].outs \cup {ret}, n |-> resolved[q].n + 1]
    ELSE [outs |-> {ret}, n |-> 1]

\* The geocoding call fails: the helper's except clauses.
geocoding_fails ==
    /\ pc = "geocoding"
    /\ Len(geoReplies) < Len(geoCalls)
    /\ \E f \in GeoFaults :
          LET response == [fault |-> f, data |-> <<>>] IN
          /\ geoReplies' = Append(geoReplies, response)
          /\ AfterGeocoding(get_coordinates_from_city(city, response))
    /\ UNCHANGED <<endpoint, city, geoCalls, weatherReplies, body, geodata,
                   resolved, nreq>>

\* The geocoding call is answered with a 2xx JSON list.
geocoding_answers ==
    /\ pc = "geocoding"
    /\ Len(geoReplies) < Len(geoCalls)
    /\ LET params == geoCalls[Len(geoReplies) + 1]
           q == params.q.s
       IN \E matches \in (IF q \in DOMAIN geodata THEN {geodata[q]} ELSE Listings) :
            LET response == [fault |-> "none", data |-> GeocodingData(matches, params)]
                ret == get_coordinates_from_city(city, response)
            IN /\ geoReplies' = Append(geoReplies, response)
               /\ geodata' = (q :> matches) @@ geodata
               /\ resolved' = (q :> Recorded(q, ret)) @@ resolved
               /\ AfterGeocoding(ret)
    /\ UNCHANGED <<endpoint, city, geoCalls, weatherReplies, body, nreq>>

\* The label of a response: from city_info, else from the coordinates.
ResponseLabel(info, la, lo) ==
    IF Truthy(info)
    THEN [city |-> info.name, country |-> info.country]
    ELSE [city |-> PyStr(<<"Lat: ">> \o la.s \o <<", Lon: ">> \o lo.s),
          country |-> PyStr(<<>>)]

\* Variant of OneCallStatus: the test for 'subscription' in the error text is
\* missing.
OneCallStatus_no_subscription(outcome) ==
    CASE outcome = "ok" -> 200
      [] outcome = "request_401" -> 401
      [] OTHER -> 500

\* The status answered for an outcome of the One Call request.
OneCallStatus(outcome) ==
    CASE outcome = "ok" -> 200
      [] outcome \in {"request_401", "request_subscription"} -> 401
      [] OTHER -> 500

one_call_response ==
    /\ pc = "onecall"
    /\ \E outcome \in WeatherOutcomes :
          /\ weatherReplies' = Append(weatherReplies, outcome)
          /\ status' = OneCallStatus(outcome)
          /\ body' = IF outcome = "ok" THEN ResponseLabel(city_info, lat, lon) ELSE NoBody
    /\ pc' = "done"
    /\ UNCHANGED <<endpoint, city, lat, lon, city_info, geoCalls, geoReplies,
                   resolver, weatherCalls, geodata, resolved, nreq>>

-----------------------------------------------------------------------------
(* get_weather                                                             *)

CurrentWeatherParams(c, la, lo) ==
    IF Truthy(la) /\ Truthy(lo)
    THEN [api |-> "weather", lat |-> la, lon |-> lo, q |-> PyNone, exclude |-> ""]
    ELSE [api |-> "weather", lat |-> PyNone, lon |-> PyNone, q |-> c, exclude |-> ""]

get_weather ==
    /\ pc \in {"idle", "done"}
    /\ nreq < MaxRequests
    /\ nreq' = nreq + 1
    /\ endpoint' = "get-weather"
    /\ \E c \in CityArgs, la, lo \in CoordArgs :
          /\ city' = c /\ lat' = la /\ lon' = lo
          /\ IF MissingInput(c, la, lo)
             THEN /\ status' = 400
                  /\ pc' = "done"
                  /\ weatherCalls' = <<>>
             ELSE /\ status' = 0
                  /\ pc' = "weather"
                  /\ weatherCalls' = <<CurrentWeatherParams(c, la, lo)>>
    /\ city_info' = PyNone
    /\ geoCalls' = <<>> /\ geoReplies' = <<>>
    /\ weatherReplies' = <<>>
    /\ resolver' = NoResult
    /\ body' = NoBody
    /\ UNCHANGED <<geodata, resolved>>

\* data['name'] and data['sys']['country'] of the current-weather body.
WeatherLabel == [city |-> PyStr(<<"name">>), country |-> PyStr(<<"country">>)]

weather_response ==
    /\ pc = "weather"
    /\ \E outcome \in WeatherOutcomes :
          /\ weatherReplies' = Append(weatherReplies, outcome)
          /\ status' = IF outcome = "ok" THEN 200 ELSE 500
          /\ body' = IF outcome = "ok" THEN WeatherLabel ELSE NoBody
    /\ pc' = "done"
    /\ UNCHANGED <<endpoint, city, lat, lon, city_info, geoCalls, geoReplies,
                   resolver, weatherCalls, geodata, resolved, nreq>>

-----------------------------------------------------------------------------
Next ==
    \/ get_weather
    \/ get_forecast
    \/ get_hourly
    \/ get_minute_forecast
    \/ get_alerts
    \/ geocoding_fails
    \/ geocoding_answers
    \/ one_call_response
    \/ weather_response

Spec == Init /\ [][Next]_vars

TypeOK ==
    /\ pc \in {"idle", "geocoding", "onecall", "weather", "done"}
    /\ status \in {0, 200, 400, 401, 404, 500}
    /\ nreq \in 0..MaxRequests
    /\ endpoint \in OneCallEndpoints \cup {"none", "get-weather"}
    /\ \A q \in DOMAIN geodata : geodata[q] \in Listings

-----------------------------------------------------------------------------
(* The request being handled, as the properties below read it.             *)

Done == pc = "done"
\* The handler called get_coordinates_from_city for this request.
Geocoded == geoCalls # <<>>
\* The text the helper was called with.
Query == geoCalls[1].q.s
\* The first geocoding lookup got a 2xx JSON list.
FirstAnswered == geoReplies # <<>> /\ geoReplies[1].fault = "none"
\* The geocoding service's ordered matches for the query.
Matches == geodata[Query]

\* A candidate as a resolution result.
View(cand) ==
    [returned |-> TRUE, raised |-> "none",
     lat |-> IF cand.lat = Absent THEN PyNone ELSE cand.lat,
     lon |-> IF cand.lon = Absent THEN PyNone ELSE cand.lon,
     city_info |->
        [t |-> "dict", s |-> <<>>,
         name |-> IF cand.name = Absent THEN PyStr(<<>>) ELSE cand.name,
         state |-> IF cand.state = Absent THEN PyStr(<<>>) ELSE cand.state,
         country |-> IF cand.country = Absent THEN PyStr(<<>>) ELSE cand.country]]

(* The selection rule of the specification (section 4.1, step 4).          *)

NameMatches(text, cand) ==
    cand.name # Absent /\ Lower(cand.name.s) = Lower(Segments(text)[1])

\* +2 / -1 / 0 for one hint against one field of a candidate.
HintScore(hint, field) ==
    IF field = Absent \/ field.s = <<>> THEN 0
    ELSE IF Contains(Lower(field.s), Lower(hint)) \/ Contains(Lower(hint), Lower(field.s))
         THEN 2 ELSE 0 - 1

SpecScore(text, cand) ==
    LET segs == Segments(text) IN
    1 + (IF Len(segs) >= 2 THEN HintScore(segs[2], cand.state) ELSE 0)
      + (IF Len(segs) >= 3 THEN HintScore(segs[3], cand.country) ELSE 0)

\* The index the specification's rule selects: the first of the
\* maximum-scoring name matches, the first candidate when none matches.
SpecBestIndex(text, matches) ==
    LET scored == {i \in DOMAIN matches : NameMatches(text, matches[i])} IN
    IF scored = {} THEN 1
    ELSE CHOOSE i \in scored :
            \A j \in scored :
               \/ SpecScore(text, matches[i]) > SpecScore(text, matches[j])
               \/ SpecScore(text, matches[i]) = SpecScore(text, matches[j]) /\ i <= j

-----------------------------------------------------------------------------
\* C1 (as claimed): when the geocoding call fails (network error, non-2xx
\* status, malformed body) the handler answers a server-side failure, 500 or
\* 502, never 404.
C1_UpstreamFailureIsServerError ==
    (Done /\ Geocoded /\ \E i \in DOMAIN geoReplies : geoReplies[i].fault # "none")
        => status \in {500, 502}

C4_EmptyIsNotFound ==
    (Done /\ Geocoded /\ geoReplies # <<>>
        /\ \A i \in DOMAIN geoReplies :
              geoReplies[i].fault = "none" /\ geoReplies[i].data = <<>>)
        => /\ status = 404
           /\ resolver.raised = "none"
           /\ resolver = NoneTriple
           /\ weatherCalls = <<>>

\* A request whose only lookup returned an empty list has been answered 404.
C4_Witness ==
    /\ Done /\ Geocoded /\ FirstAnswered
    /\ Len(geoReplies) = Len(geoCalls)
    /\ geoReplies[1].data = <<>>
    /\ status = 404

\* C5 (as claimed): whenever the geocoding lookup returned a non-empty list
\* the handler does not answer 404.
C5_NonEmptyNeverNotFound ==
    (Done /\ Geocoded /\ FirstAnswered /\ geoReplies[1].data # <<>>)
        => status # 404

C8_AtMostTwoSequentialCalls ==
    /\ Len(geoCalls) <= 2
    /\ Len(geoCalls) - Len(geoReplies) \in {0, 1}
    /\ weatherCalls # <<>> => Len(geoCalls) = Len(geoReplies)
    /\ (resolver.returned /\ Geocoded
          /\ (~HasComma(Query) \/ (FirstAnswered /\ geoReplies[1].data # <<>>)))
          => Len(geoCalls) = 1 /\ Len(geoReplies) = 1

\* A query without a comma found nothing, after one call.
C8_Witness ==
    /\ resolver.returned /\ Geocoded /\ FirstAnswered
    /\ ~HasComma(Query)
    /\ geoReplies[1].data = <<>>
    /\ Len(geoCalls) = 1

\* C9: a successful resolution carries one candidate's fields: latitude,
\* longitude, name and country of the result, the coordinates of the weather
\* request and the city and country of the 200 response are those of one and
\* the same element of the service's matches.
C9_OneCandidateUnmodified ==
    (Geocoded /\ resolver.returned /\ resolver.city_info # PyNone)
        => \E i \in DOMAIN Matches :
              LET cand == Matches[i] IN
              /\ resolver.lat = (IF cand.lat = Absent THEN PyNone ELSE cand.lat)
              /\ resolver.lon = (IF cand.lon = Absent THEN PyNone ELSE cand.lon)
              /\ resolver.city_info.name = cand.name
              /\ resolver.city_info.country = cand.country
              /\ weatherCalls # <<>> =>
                    weatherCalls[1].lat = cand.lat /\ weatherCalls[1].lon = cand.lon
              /\ status = 200 => body.city = cand.name /\ body.country = cand.country

\* A geocoded request has been answered 200 while the service held two
\* matches with different names and countries.
C9_Witness ==
    /\ Done /\ Geocoded /\ status = 200
    /\ Len(Matches) = 2
    /\ Matches[1].name # Matches[2].name
    /\ Matches[1].country # Matches[2].country
    /\ body.city = Matches[1].name

C11_ResolverNeverGetsBlankCity ==
    Geocoded => Trim(Query) # <<>>

\* The indices of the service's matches whose name equals the query's.
NamedIndices == {i \in DOMAIN Matches : NameMatches(Query, Matches[i])}

C13_MissingInputIs400 ==
    (endpoint \in OneCallEndpoints \cup {"get-weather"}
        /\ ~Truthy(city) /\ (~Truthy(lat) \/ ~Truthy(lon)))
        => /\ pc = "done"
           /\ status = 400
           /\ geoCalls = <<>> /\ geoReplies = <<>>
           /\ weatherCalls = <<>> /\ weatherReplies = <<>>

\* A request with an empty city, a lat and no lon has been answered 400.
C13_Witness ==
    /\ Done /\ status = 400
    /\ endpoint = "get-alerts"
    /\ city = PyStr(<<>>)
    /\ Truthy(lat) /\ lon = PyNone
    /\ geoCalls = <<>> /\ weatherCalls = <<>>

\* C14: in the four One Call handlers, the step that receives a request sends
\* a geocoding request if and only if a city is given and lat or lon is
\* missing, and no later step sends one; when both lat and lon are supplied
\* they go to the weather request unchanged, with or without a city, and a
\* 200 response of a request that was not geocoded is labelled from the
\* coordinates, with an empty country.
C14_GeocodingOnlyWhenNeeded ==
    /\ [][(nreq' = nreq + 1 /\ endpoint' \in OneCallEndpoints)
            => /\ (geoCalls' # <<>>)
                    <=> (Truthy(city') /\ (~Truthy(lat') \/ ~Truthy(lon')))
               /\ (Truthy(lat') /\ Truthy(lon'))
                    => /\ Len(weatherCalls') = 1
                       /\ weatherCalls'[1].lat = lat'
                       /\ weatherCalls'[1].lon = lon']_vars
    /\ [][nreq' = nreq => geoCalls' = geoCalls]_vars
    /\ [][(nreq' = nreq /\ geoCalls = <<>>) => (lat' = lat /\ lon' = lon)]_vars
    /\ []((endpoint \in OneCallEndpoints /\ geoCalls = <<>> /\ status = 200)
            => /\ weatherCalls[1].lat = lat /\ weatherCalls[1].lon = lon
               /\ body.city = PyStr(<<"Lat: ">> \o lat.s \o <<", Lon: ">> \o lon.s)
               /\ body.country = PyStr(<<>>))

\* A request with a city and both coordinates has been answered 200 without
\* geocoding, labelled from the coordinates.
C14_Witness ==
    /\ Done /\ status = 200
    /\ endpoint \in OneCallEndpoints
    /\ city = PyStr(t_Sp)
    /\ Truthy(lat) /\ Truthy(lon)
    /\ geoCalls = <<>>
    /\ weatherCalls[1].lat = lat
    /\ body.country = PyStr(<<>>)

\* C15: in the four One Call handlers a request has a response exactly when
\* its handler is done, a handler that waits for an upstream response can
\* always go on, and the status is 200, 400, 401, 404 or 500: a failed
\* weather request whose error text contains '401' or 'subscription' gives
\* 401, any other failed weather request, a missing key or another exception
\* gives 500, and 401 comes from a weather request only, never from a failed
\* geocoding request.
C15_OneResponseWithMappedStatus ==
    endpoint \in OneCallEndpoints
        => /\ status \in {0, 200, 400, 401, 404, 500}
           /\ (pc = "done") <=> (status # 0)
           /\ pc \in {"geocoding", "onecall", "done"}
           /\ pc = "geocoding" => ENABLED (geocoding_fails \/ geocoding_answers)
           /\ pc = "onecall" => ENABLED one_call_response
           /\ Len(weatherReplies) <= 1
           /\ (Done /\ weatherReplies # <<>>)
                => LET outcome == weatherReplies[1] IN
                   /\ outcome \in {"request_401", "request_subscription"} => status = 401
                   /\ outcome \in {"request_other", "key_error", "exception"} => status = 500
                   /\ outcome = "ok" => status = 200
           /\ (Done /\ weatherReplies = <<>>) => status \in {400, 404, 500}
           /\ status = 401
                => /\ weatherReplies # <<>>
                   /\ weatherReplies[1] \in {"request_401", "request_subscription"}
                   /\ \A i \in DOMAIN geoReplies : geoReplies[i].fault = "none"
           /\ (Done /\ \E i \in DOMAIN geoReplies : geoReplies[i].fault # "none")
                => status # 401

\* A geocoded request whose weather request failed with 'subscription' in
\* the error text has been answered 401.
C15_Witness ==
    /\ Done /\ status = 401
    /\ endpoint \in OneCallEndpoints
    /\ Geocoded /\ FirstAnswered
    /\ weatherReplies = <<"request_subscription">>

====
